---------------------------- MODULE Spec2Model ----------------------------
(***************************************************************************)
(* Model of fa2jsonserver.py: the conversion of a single-chain FASTA file  *)
(* into an AlphaFold Server job list.                                      *)
(*                                                                         *)
(* A Python str is modelled as a sequence of code points (naturals), so    *)
(* that strip, upper, replace, the regular expressions and the slices are  *)
(* computed character by character as Python computes them.  An Optional   *)
(* value is a sequence of length 0 (None) or 1 (the value).                *)
(***************************************************************************)
EXTENDS Integers, Sequences, FiniteSets, TLC

VARIABLES
    pc,       \* position of the run (main) or of the function under check
    fs,       \* the file system: input file text, output directory, output file
    args,     \* the parsed command line / the arguments of build_jobs
    rd,       \* locals of parse_fasta: header, seq_lines, the lines still to read
    records,  \* the list of (header, sequence) parse_fasta returns
    bj,       \* locals of build_jobs: selected, i, and the positions normalized
    jobs,     \* the list of jobs build_jobs accumulates
    error,    \* the exception that ended the run (None when there is none)
    call,     \* arguments of a pure function applied on its own
    ret       \* its outcome

vars == <<pc, fs, args, rd, records, bj, jobs, error, call, ret>>

(***************************************************************************)
(* Bounds of the model.                                                    *)
(***************************************************************************)
MaxSeqLen == 3      \* longest raw sequence given to normalize_and_validate_sequence
MaxFileLen == 6     \* longest input file text (characters) given to parse_fasta
MaxRecords == 3     \* most records given to build_jobs
MaxTokens == 3      \* most tokens a header given to the suffix derivation is made of
MaxJobsArg == 4     \* largest |--max-jobs| value tried

(***************************************************************************)
(* Python values.                                                          *)
(***************************************************************************)
None == <<>>
Some(v) == <<v>>

\* str.isspace(), on the code points below 256
IsSpace(c) == c \in {9, 10, 11, 12, 13, 28, 29, 30, 31, 32, 133, 160}

Min(a, b) == IF a <= b THEN a ELSE b
Max(a, b) == IF a >= b THEN a ELSE b

\* s[:k], for every integer k
PySliceTo(s, k) ==
    IF k >= 0 THEN SubSeq(s, 1, Min(k, Len(s)))
    ELSE SubSeq(s, 1, Max(Len(s) + k, 0))

\* s[k:], for k >= 0
PySliceFrom(s, k) == SubSeq(s, Min(k, Len(s)) + 1, Len(s))

\* the first position >= k of s that holds no character of S (Len(s)+1 if none)
RunEnd(s, k, S) ==
    IF \E j \in k..Len(s) : s[j] \notin S
    THEN CHOOSE j \in k..Len(s) : s[j] \notin S /\ \A x \in k..(j - 1) : s[x] \in S
    ELSE Max(k, Len(s) + 1)

\* the last position <= k of s that holds no character of S (0 if none)
RunStart(s, k, S) ==
    IF \E j \in 1..k : s[j] \notin S
    THEN CHOOSE j \in 1..k : s[j] \notin S /\ \A x \in (j + 1)..k : s[x] \in S
    ELSE Min(k, 0)

SpaceChars == {c \in 0..255 : IsSpace(c)}

\* s.strip(chars)
StripSet(s, S) == SubSeq(s, RunEnd(s, 1, S), RunStart(s, Len(s), S))

\* s.strip()
Strip(s) == StripSet(s, SpaceChars)

\* s.upper(), on ASCII
UpperChar(c) == IF c >= 97 /\ c <= 122 THEN c - 32 ELSE c
Upper(s) == [k \in 1..Len(s) |-> UpperChar(s[k])]

\* s.lower(), on ASCII
LowerChar(c) == IF c >= 65 /\ c <= 90 THEN c + 32 ELSE c
Lower(s) == [k \in 1..Len(s) |-> LowerChar(s[k])]

\* s.replace(c, "")
Remove(s, c) == SelectSeq(s, LAMBDA x : x # c)

\* s.replace(c, d), one character by one character
Replace(s, c, d) == [k \in 1..Len(s) |-> IF s[k] = c THEN d ELSE s[k]]

\* re.sub(r"[S]+", d, s): every maximal run of characters of S becomes one d
\* (the first character of a run becomes d, the others of the run go)
SubRuns(s, S, d) ==
    LET marked == [k \in 1..Len(s) |->
                      IF s[k] \notin S THEN s[k]
                      ELSE IF k > 1 /\ s[k - 1] \in S THEN -1
                      ELSE d]
    IN  SelectSeq(marked, LAMBDA c : c # -1)

\* "".join(parts)
RECURSIVE Join(_)
Join(parts) == IF parts = <<>> THEN <<>> ELSE Head(parts) \o Join(Tail(parts))

\* sorted(S), S a set of characters
RECURSIVE Sorted(_)
Sorted(S) ==
    IF S = {} THEN <<>>
    ELSE LET m == CHOOSE x \in S : \A y \in S : x <= y
         IN <<m>> \o Sorted(S \ {m})

\* the strings over the characters of A of length at most n
StrsUpTo(A, n) == UNION {[1..k -> A] : k \in 0..n}

(***************************************************************************)
(* AA20 = set("ACDEFGHIKLMNPQRSTVWY")                                      *)
(***************************************************************************)
AA20 == {65, 67, 68, 69, 70, 71, 72, 73, 75, 76, 77, 78, 80, 81, 82, 83, 84, 86, 87, 89}

(***************************************************************************)
(* Exceptions: every one is a ValueError (FileNotFoundError for the first) *)
(* told apart by its message; bad is the letter list of the message.       *)
(***************************************************************************)
Raise(kind, bad) == [ok |-> FALSE, kind |-> kind, bad |-> bad]
Return(v) == [ok |-> TRUE, value |-> v]

(***************************************************************************)
(* normalize_and_validate_sequence                                         *)
(***************************************************************************)
\* the letter list without set() and sorted(): one entry per offending character
BadLettersUnsorted(seq) == SelectSeq(seq, LAMBDA c : c \notin AA20)

BadLetters(seq) == Sorted({seq[k] : k \in {j \in 1..Len(seq) : seq[j] \notin AA20}})

normalize_and_validate_sequence(seq, strict_aa20) ==
    LET s1 == Remove(Remove(Upper(Strip(seq)), 32), 9)
        s2 == Remove(Remove(s1, 13), 10)
        bad == BadLetters(s2)
    IN  IF s1 = <<>> THEN Raise("EmptySequence", <<>>)
        ELSE IF strict_aa20 /\ bad # <<>> THEN Raise("InvalidAlphabet", bad)
        ELSE Return(s2)

(***************************************************************************)
(* The alphabet check on its own: a raw sequence and a strict flag are     *)
(* drawn, and the function is applied.                                     *)
(***************************************************************************)
\* A c x X * space tab CR LF
NormChars == {65, 99, 120, 88, 42, 32, 9, 13, 10}

Idle ==
    /\ fs = [input |-> None, outDir |-> FALSE, outFile |-> None]
    /\ args = None
    /\ rd = None
    /\ records = <<>>
    /\ bj = None
    /\ jobs = <<>>
    /\ error = None

InitNorm ==
    /\ pc = "call"
    /\ call \in [seq : StrsUpTo(NormChars, MaxSeqLen), strict_aa20 : BOOLEAN]
    /\ ret = None
    /\ Idle

Normalize ==
    /\ pc = "call"
    /\ ret' = Some(normalize_and_validate_sequence(call.seq, call.strict_aa20))
    /\ pc' = "returned"
    /\ UNCHANGED <<fs, args, rd, records, bj, jobs, error, call>>

NextNorm == Normalize

SpecNorm == InitNorm /\ [][NextNorm]_vars

\* what the claim calls the cleaned, upper-cased sequence
Cleaned(raw) == SelectSeq(Upper(Strip(raw)), LAMBDA c : c \notin {32, 9, 13, 10})

Offending(s) == {c \in {s[k] : k \in 1..Len(s)} : c \notin AA20}

StrictlyAscending(s) == \A k \in 1..(Len(s) - 1) : s[k] < s[k + 1]

\* C6: for a raw sequence that is non-empty after cleaning, strict mode succeeds
\* iff every cleaned character is one of the 20 letters and otherwise raises the
\* invalid-alphabet error whose letter list is the distinct offending characters in
\* ascending order; non-strict mode always succeeds; a success returns the cleaned,
\* upper-cased sequence with every letter kept in place.
C6_AlphabetCheck ==
    (pc = "returned" /\ Cleaned(call.seq) # <<>>) =>
        LET r == ret[1]
            c == Cleaned(call.seq)
        IN  /\ r.ok <=> (~call.strict_aa20 \/ Offending(c) = {})
            /\ r.ok => r.value = c
            /\ ~r.ok => /\ r.kind = "InvalidAlphabet"
                        /\ StrictlyAscending(r.bad)
                        /\ {r.bad[k] : k \in 1..Len(r.bad)} = Offending(c)

\* a sequence holding X and * twice over was rejected with the list ['*', 'X']
C6_Witness ==
    /\ pc = "returned"
    /\ call.strict_aa20
    /\ Len(call.seq) = 3
    /\ ~ret[1].ok
    /\ ret[1].kind = "InvalidAlphabet"
    /\ ret[1].bad = <<42, 88>>

(***************************************************************************)
(* parse_fasta.  The file is a text; iterating it yields its lines, each   *)
(* with its line break ("\n" after universal-newline translation).         *)
(***************************************************************************)
\* the next line of the text, its line break included
NextRawLine(text) ==
    LET nl == RunEnd(text, 1, {c \in 0..255 : c # 10})
    IN  SubSeq(text, 1, Min(nl, Len(text)))

\* the record a header and its sequence lines make: (header, "".join(seq_lines))
Record(header, seq_lines) == [header |-> header, seq |-> Join(seq_lines)]

\* lines 32-36: the locals, and the file opened
ParseOpen ==
    /\ pc = "parse_open"
    /\ records' = <<>>
    /\ rd' = [header |-> None, seq_lines |-> <<>>, rest |-> fs.input[1]]
    /\ pc' = "parse_loop"
    /\ UNCHANGED <<fs, args, bj, jobs, error, call, ret>>

\* the loop body without its reset of seq_lines at a header
ParseLineStep_NoReset(r, recs, raw) ==
    LET line == Strip(raw)
    IN  IF line = <<>> THEN <<r, recs>>
        ELSE IF Head(line) = 62
        THEN << [r EXCEPT !.header = Some(Strip(Tail(line)))],
                IF r.header # None
                THEN Append(recs, Record(r.header[1], r.seq_lines))
                ELSE recs >>
        ELSE << [r EXCEPT !.seq_lines = Append(@, Remove(Remove(line, 32), 9))],
                recs >>

\* lines 38-47: the loop body on one raw line; the locals and the records after it
ParseLineStep(r, recs, raw) ==
    LET line == Strip(raw)
    IN  IF line = <<>> THEN <<r, recs>>
        ELSE IF Head(line) = 62
        THEN << [r EXCEPT !.header = Some(Strip(Tail(line))), !.seq_lines = <<>>],
                IF r.header # None
                THEN Append(recs, Record(r.header[1], r.seq_lines))
                ELSE recs >>
        ELSE << [r EXCEPT !.seq_lines = Append(@, Remove(Remove(line, 32), 9))],
                recs >>

\* lines 37-47: one iteration of the loop over the file's lines
ParseLine ==
    /\ pc = "parse_loop"
    /\ rd.rest # <<>>
    /\ LET raw == NextRawLine(rd.rest)
           step == ParseLineStep(rd, records, raw)
       IN  /\ rd' = [step[1] EXCEPT !.rest = PySliceFrom(rd.rest, Len(raw))]
           /\ records' = step[2]
    /\ UNCHANGED <<pc, fs, args, bj, jobs, error, call, ret>>

\* lines 49-54: the last record, and the error of a file without records
ParseEnd ==
    /\ pc = "parse_loop"
    /\ rd.rest = <<>>
    /\ LET recs == IF rd.header # None
                   THEN Append(records, Record(rd.header[1], rd.seq_lines))
                   ELSE records
       IN  /\ records' = recs
           /\ IF recs = <<>>
              THEN /\ error' = Some(Raise("Parse", <<>>))
                   /\ pc' = "failed"
              ELSE /\ error' = error
                   /\ pc' = "build_call"
    /\ UNCHANGED <<fs, args, rd, bj, jobs, call, ret>>

(***************************************************************************)
(* The reader on its own: every text of at most MaxFileLen characters.     *)
(***************************************************************************)
\* > A space tab LF
ParseChars == {62, 65, 32, 9, 10}

InitParse ==
    /\ pc = "parse_open"
    /\ fs \in [input : {Some(t) : t \in StrsUpTo(ParseChars, MaxFileLen)},
               outDir : {FALSE}, outFile : {None}]
    /\ args = None
    /\ rd = None
    /\ records = <<>>
    /\ bj = None
    /\ jobs = <<>>
    /\ error = None
    /\ call = None
    /\ ret = None

NextParse == ParseOpen \/ ParseLine \/ ParseEnd

SpecParse == InitParse /\ [][NextParse]_vars

\* the lines of a text, without their line breaks
RECURSIVE SplitLines(_)
SplitLines(text) ==
    IF text = <<>> THEN <<>>
    ELSE LET nl == RunEnd(text, 1, {c \in 0..255 : c # 10})
         IN  <<SubSeq(text, 1, nl - 1)>> \o SplitLines(PySliceFrom(text, nl))

IsBlank(line) == \A k \in 1..Len(line) : IsSpace(line[k])
StartsRecord(line) == line # <<>> /\ line[1] = 62

\* the records the claim describes for the lines L: one per header line, its header
\* the trimmed text after '>', its sequence the non-blank non-header lines up to the
\* next header with spaces and tabs removed
HeaderLines(L) == {k \in 1..Len(L) : StartsRecord(L[k])}
NthHeader(L, j) == CHOOSE h \in HeaderLines(L) :
                       Cardinality({g \in HeaderLines(L) : g <= h}) = j
SeqOf(L, h) ==
    LET nxt == IF \E g \in HeaderLines(L) : g > h
               THEN CHOOSE g \in HeaderLines(L) :
                        g > h /\ \A x \in HeaderLines(L) : x > h => g <= x
               ELSE Len(L) + 1
        part == [m \in 1..(nxt - h - 1) |->
                    IF IsBlank(L[h + m]) THEN <<>>
                    ELSE SelectSeq(L[h + m], LAMBDA c : c \notin {32, 9})]
    IN  Join(part)
ClaimedRecords(L) ==
    [j \in 1..Cardinality(HeaderLines(L)) |->
        [header |-> Strip(Tail(L[NthHeader(L, j)])), seq |-> SeqOf(L, NthHeader(L, j))]]

ParseReturned == pc \in {"build_call", "failed"}
ClaimedOutcome(L) ==
    IF HeaderLines(L) = {}
    THEN pc = "failed" /\ error # None /\ error[1].kind = "Parse"
    ELSE pc = "build_call" /\ error = None /\ records = ClaimedRecords(L)

RawLines == SplitLines(fs.input[1])
TrimmedLines == [k \in 1..Len(RawLines) |-> Strip(RawLines[k])]

\* C7 as stated: a header line is a line of the input that starts with '>'
C7_Original == ParseReturned => ClaimedOutcome(RawLines)

\* C7 amended: every line is first trimmed of surrounding whitespace; a header line
\* is a line that starts with '>' once trimmed.  One record per header line in input
\* order, header = the trimmed text after '>', sequence = the non-blank non-header
\* lines up to the next header with spaces and tabs removed; the parse error exactly
\* when there is no header line.
C7_Amended == ParseReturned => ClaimedOutcome(TrimmedLines)

\* an indented header line opened a record whose sequence is wrapped over two lines
C7_Witness ==
    /\ pc = "build_call"
    /\ Len(RawLines) = 3
    /\ fs.input[1][1] = 32
    /\ records = <<[header |-> <<>>, seq |-> <<65, 65>>]>>

(***************************************************************************)
(* sanitize_job_name                                                       *)
(***************************************************************************)
DefaultMaxLen == 120

\* [A-Za-z0-9_.\-]
SafeChars == (65..90) \cup (97..122) \cup (48..57) \cup {95, 46, 45}

\* "job"
JobLiteral == <<106, 111, 98>>

\* the sanitization without its fallback to "job"
sanitize_job_name_NoFallback(name, max_len) ==
    LET n1 == Strip(name)
        n2 == SubRuns(n1, SpaceChars, 95)
        n3 == Replace(Replace(Replace(Replace(n2, 44, 95), 59, 95), 58, 95), 47, 95)
        n4 == SubRuns(n3, (0..255) \ SafeChars, 95)
        n5 == StripSet(SubRuns(n4, {95}, 95), {95})
    IN  PySliceTo(n5, max_len)

sanitize_job_name(name, max_len) ==
    LET n1 == Strip(name)
        n2 == SubRuns(n1, SpaceChars, 95)
        n3 == Replace(Replace(Replace(Replace(n2, 44, 95), 59, 95), 58, 95), 47, 95)
        n4 == SubRuns(n3, (0..255) \ SafeChars, 95)
        n5 == StripSet(SubRuns(n4, {95}, 95), {95})
        n6 == IF n5 = <<>> THEN JobLiteral ELSE n5
    IN  PySliceTo(n6, max_len)

(***************************************************************************)
(* derive_suffix_from_mpnn_header                                          *)
(***************************************************************************)
\* [0-9.] and [0-9]
NumberChars == (48..57) \cup {46}
DigitChars == 48..57

\* the pattern  key\s*=\s*([S]+)  tried at position p: group 1, or None
MatchAt(h, key, S, p) ==
    LET a == p + Len(key)
        b == RunEnd(h, a, SpaceChars)
        c == RunEnd(h, b + 1, SpaceChars)
        d == RunEnd(h, c, S)
    IN  IF /\ a - 1 <= Len(h)
           /\ SubSeq(h, p, a - 1) = key
           /\ b <= Len(h)
           /\ h[b] = 61
           /\ d > c
        THEN Some(SubSeq(h, c, d - 1))
        ELSE None

\* re.search of that pattern: group 1 of the leftmost match, or None
ReSearch(h, key, S) ==
    LET P == {p \in 1..Len(h) : MatchAt(h, key, S, p) # None}
    IN  IF P = {} THEN None
        ELSE MatchAt(h, key, S, CHOOSE p \in P : \A q \in P : p <= q)

\* "T", "sample", "_sample"
KeyT == <<84>>
KeySample == <<115, 97, 109, 112, 108, 101>>
UnderSample == <<95>> \o KeySample

\* header.split(",")[0]
BeforeComma(h) == SubSeq(h, 1, RunEnd(h, 1, {c \in 0..255 : c # 44}) - 1)

\* the suffix with the sample-only case tried first
derive_suffix_SampleFirst(header) ==
    LET t == ReSearch(header, KeyT, NumberChars)
        s == ReSearch(header, KeySample, DigitChars)
    IN  IF s # None THEN KeySample \o s[1]
        ELSE IF t # None /\ s # None THEN KeyT \o t[1] \o UnderSample \o s[1]
        ELSE Strip(BeforeComma(header))

derive_suffix_from_mpnn_header(header) ==
    LET t == ReSearch(header, KeyT, NumberChars)
        s == ReSearch(header, KeySample, DigitChars)
    IN  IF t # None /\ s # None THEN KeyT \o t[1] \o UnderSample \o s[1]
        ELSE IF s # None THEN KeySample \o s[1]
        ELSE Strip(BeforeComma(header))

(***************************************************************************)
(* The suffix derivation on its own: a header made of at most MaxTokens    *)
(* tokens is drawn, and the function is applied.                           *)
(***************************************************************************)
\* T=0.1  t=1  sample=2  SAMPLE=3  T  =  space  1  .  ,  x  sample
HeaderTokens ==
    { <<84, 61, 48, 46, 49>>, <<116, 61, 49>>,
      KeySample \o <<61, 50>>, <<83, 65, 77, 80, 76, 69, 61, 51>>,
      <<84>>, <<61>>, <<32>>, <<49>>, <<46>>, <<44>>, <<120>>, KeySample }

TokenHeaders == {Join(ts) : ts \in StrsUpTo(HeaderTokens, MaxTokens)}

InitSuffix ==
    /\ pc = "call"
    /\ call \in [header : TokenHeaders]
    /\ ret = None
    /\ Idle

DeriveSuffix ==
    /\ pc = "call"
    /\ ret' = Some(derive_suffix_from_mpnn_header(call.header))
    /\ pc' = "returned"
    /\ UNCHANGED <<fs, args, rd, records, bj, jobs, error, call>>

NextSuffix == DeriveSuffix

SpecSuffix == InitSuffix /\ [][NextSuffix]_vars

\* the markers key=<value> of a header as the claim describes them: the key (compared
\* after the folding F of both sides), optional whitespace, '=', optional whitespace,
\* and the longest run of value characters; <<p, value>> for each place p
FoldCase == [c \in 0..255 |-> LowerChar(c)]
KeepCase == [c \in 0..255 |-> c]
Folded(s, F) == [k \in 1..Len(s) |-> F[s[k]]]
KeyPlaces(h, key, F) ==
    {p \in 1..(Len(h) - Len(key) + 1) :
        Folded(SubSeq(h, p, p + Len(key) - 1), F) = Folded(key, F)}
ValuesAt(h, key, S, p) ==
    UNION { { SubSeq(h, c, d - 1) :
                d \in {e \in (c + 1)..(Len(h) + 1) :
                         /\ \A x \in c..(e - 1) : h[x] \in S
                         /\ (e = Len(h) + 1 \/ h[e] \notin S)} } :
            c \in {f \in (p + Len(key) + 1)..Len(h) :
                     \E b \in (p + Len(key))..(f - 1) :
                        /\ h[b] = 61
                        /\ \A x \in ((p + Len(key))..(f - 1)) \ {b} : IsSpace(h[x])
                        /\ ~IsSpace(h[f])} }
Markers(h, key, S, F) ==
    UNION { {<<p, v>> : v \in ValuesAt(h, key, S, p)} : p \in KeyPlaces(h, key, F) }
FirstMarker(h, key, S, F) ==
    LET M == Markers(h, key, S, F)
    IN  (CHOOSE m \in M : \A o \in M : m[1] <= o[1])[2]

ClaimedSuffix(h, F) ==
    LET hasT == Markers(h, KeyT, NumberChars, F) # {}
        hasS == Markers(h, KeySample, DigitChars, F) # {}
    IN  IF hasT /\ hasS
        THEN KeyT \o FirstMarker(h, KeyT, NumberChars, F)
                  \o UnderSample \o FirstMarker(h, KeySample, DigitChars, F)
        ELSE IF hasS THEN KeySample \o FirstMarker(h, KeySample, DigitChars, F)
        ELSE Strip(BeforeComma(h))

\* C4 as stated: the keys T and sample are matched case-insensitively
C4_Original == pc = "returned" => ret[1] = ClaimedSuffix(call.header, FoldCase)

\* C4 amended: the keys are matched case-sensitively ('T' upper-case, 'sample'
\* lower-case).  With both markers the suffix is T<number>_sample<integer> from the
\* matched text (the leftmost marker of each kind); with a sample marker only it is
\* sample<integer>; otherwise the trimmed header text before its first comma.
C4_Amended == pc = "returned" => ret[1] = ClaimedSuffix(call.header, KeepCase)

\* the header "T=0.1,sample=2" gave the suffix "T0.1_sample2"
C4_Witness ==
    /\ pc = "returned"
    /\ call.header = <<84, 61, 48, 46, 49, 44>> \o KeySample \o <<61, 50>>
    /\ ret[1] = <<84, 48, 46, 49>> \o UnderSample \o <<50>>

(***************************************************************************)
(* build_jobs                                                              *)
(***************************************************************************)
\* lines 117-121 with the skip ignored
Selected_IgnoresSkip(recs, skip_first, max_jobs) ==
    IF max_jobs # None THEN PySliceTo(recs, max_jobs[1]) ELSE recs

\* lines 117-121: records[start_idx:], then [:max_jobs] when max_jobs is given
Selected(recs, skip_first, max_jobs) ==
    LET start_idx == IF skip_first THEN 1 ELSE 0
        selected == PySliceFrom(recs, start_idx)
    IN  IF max_jobs # None THEN PySliceTo(selected, max_jobs[1]) ELSE selected

\* the decimal digits of n >= 0
RECURSIVE DecDigits(_)
DecDigits(n) ==
    IF n < 10 THEN <<48 + n>> ELSE DecDigits(n \div 10) \o <<48 + (n % 10)>>

\* f"{i:04d}"
Format04d(i) ==
    LET d == DecDigits(i) IN [k \in 1..(4 - Len(d)) |-> 48] \o d

\* the raw name without the index in index mode
RawJobName_NoIndex(job_prefix, name_mode, i, hdr) ==
    IF name_mode = "index" THEN job_prefix
    ELSE job_prefix \o <<95>> \o derive_suffix_from_mpnn_header(hdr)

\* lines 126-130: the raw job name
RawJobName(job_prefix, name_mode, i, hdr) ==
    IF name_mode = "index" THEN job_prefix \o <<95>> \o Format04d(i)
    ELSE job_prefix \o <<95>> \o derive_suffix_from_mpnn_header(hdr)

EmptyDict == [k \in {} |-> 0]

\* the chain with useStructureTemplate tested for truth instead of for None
ProteinChain_DropsFalse(seq_norm, count, max_template_date, use_structure_template) ==
    ("sequence" :> seq_norm) @@ ("count" :> count)
    @@ (IF max_template_date # None /\ max_template_date[1] # <<>>
        THEN "maxTemplateDate" :> max_template_date[1] ELSE EmptyDict)
    @@ (IF use_structure_template # None /\ use_structure_template[1]
        THEN "useStructureTemplate" :> use_structure_template[1] ELSE EmptyDict)

\* lines 134-141: the proteinChain dict
ProteinChain(seq_norm, count, max_template_date, use_structure_template) ==
    ("sequence" :> seq_norm) @@ ("count" :> count)
    @@ (IF max_template_date # None /\ max_template_date[1] # <<>>
        THEN "maxTemplateDate" :> max_template_date[1] ELSE EmptyDict)
    @@ (IF use_structure_template # None
        THEN "useStructureTemplate" :> use_structure_template[1] ELSE EmptyDict)

\* lines 143-149: the job dict
Job(job_name, seeds, protein_chain) ==
    [name |-> job_name, modelSeeds |-> seeds,
     sequences |-> <<[proteinChain |-> protein_chain]>>,
     dialect |-> "alphafoldserver", version |-> 1]

\* the frame of a call of build_jobs: its arguments, its locals selected and i, and
\* (history, not a Python variable) the positions of records it has normalized
BuildFrame(recs, job_prefix, skip_first, max_jobs, count, max_template_date, use_structure_template, seeds, strict_aa20, name_mode) ==
    [records |-> recs, job_prefix |-> job_prefix, skip_first |-> skip_first,
     max_jobs |-> max_jobs, count |-> count, max_template_date |-> max_template_date,
     use_structure_template |-> use_structure_template, seeds |-> seeds,
     strict_aa20 |-> strict_aa20, name_mode |-> name_mode,
     selected |-> <<>>, i |-> 0, normalized |-> {}]

\* lines 116-121
BuildSelect ==
    /\ pc = "build_select"
    /\ jobs' = <<>>
    /\ bj' = [bj EXCEPT !.selected = Selected(bj.records, bj.skip_first, bj.max_jobs),
                        !.i = 1]
    /\ pc' = "build_loop"
    /\ UNCHANGED <<fs, args, rd, records, error, call, ret>>

\* lines 123-150: one iteration of the loop over the selected records
BuildIter ==
    /\ pc = "build_loop"
    /\ bj.i <= Len(bj.selected)
    /\ LET rec == bj.selected[bj.i]
           r == normalize_and_validate_sequence(rec.seq, bj.strict_aa20)
           at == (IF bj.skip_first THEN 1 ELSE 0) + bj.i
           job_name == sanitize_job_name(
                           RawJobName(bj.job_prefix, bj.name_mode, bj.i, rec.header),
                           DefaultMaxLen)
       IN  IF r.ok
           THEN /\ jobs' = Append(jobs,
                               Job(job_name, bj.seeds,
                                   ProteinChain(r.value, bj.count, bj.max_template_date,
                                                bj.use_structure_template)))
                /\ bj' = [bj EXCEPT !.i = @ + 1, !.normalized = @ \cup {at}]
                /\ UNCHANGED <<pc, error>>
           ELSE /\ error' = Some(r)
                /\ pc' = "failed"
                /\ bj' = [bj EXCEPT !.normalized = @ \cup {at}]
                /\ UNCHANGED jobs
    /\ UNCHANGED <<fs, args, rd, records, call, ret>>

\* lines 152-154
BuildEnd ==
    /\ pc = "build_loop"
    /\ bj.i > Len(bj.selected)
    /\ IF jobs = <<>>
       THEN /\ error' = Some(Raise("NoJobs", <<>>))
            /\ pc' = "failed"
       ELSE /\ error' = error
            /\ pc' = "mkdir"
    /\ UNCHANGED <<fs, args, rd, records, bj, jobs, call, ret>>

(***************************************************************************)
(* build_jobs on its own, on every list of 1..MaxRecords records.          *)
(***************************************************************************)
\* "AC", "cd", "G", "AX", ""
BuildSeqs == {<<65, 67>>, <<99, 100>>, <<71>>, <<65, 88>>, <<>>}
BuildRecords ==
    UNION {[1..n -> [header : {<<104>>}, seq : BuildSeqs]] : n \in 1..MaxRecords}
MaxJobsArgs == {None} \cup {Some(k) : k \in (0 - MaxJobsArg)..MaxJobsArg}

NoFiles ==
    /\ fs = [input |-> None, outDir |-> FALSE, outFile |-> None]
    /\ args = None
    /\ rd = None
    /\ records = <<>>
    /\ jobs = <<>>
    /\ error = None
    /\ call = None
    /\ ret = None

InitBuild ==
    /\ pc = "build_select"
    /\ \E recs \in BuildRecords, skip_first \in BOOLEAN, max_jobs \in MaxJobsArgs,
          strict_aa20 \in BOOLEAN :
          bj = BuildFrame(recs, <<112>>, skip_first, max_jobs, 1, None, None, <<>>,
                          strict_aa20, "index")
    /\ NoFiles

NextBuild == BuildSelect \/ BuildIter \/ BuildEnd

SpecBuild == InitBuild /\ [][NextBuild]_vars

BuildReturned == pc \in {"mkdir", "failed"}
SeqOfJob(job) == job.sequences[1].proteinChain["sequence"]
Normalizes(rec) ==
    Cleaned(rec.seq) # <<>> /\ (bj.strict_aa20 => Offending(Cleaned(rec.seq)) = {})
Skipped == IF bj.skip_first THEN 1 ELSE 0
Available == Len(bj.records) - Skipped

\* the jobs are the n records after the skipped ones, in input order
JobsAreFirst(n) ==
    /\ Len(jobs) = n
    /\ \A j \in 1..Len(jobs) :
          /\ Skipped + j <= Len(bj.records)
          /\ SeqOfJob(jobs[j]) = Cleaned(bj.records[Skipped + j].seq)

\* C1: with maxJobs unset and every record normalizing, build_jobs returns one job
\* per record in input order (N jobs), or one per record after the first when
\* skipFirst is set (N-1 jobs), and fails with the no-jobs error when skipFirst is set
\* and N = 1.
C1_SelectionLength ==
    ( /\ BuildReturned
      /\ bj.max_jobs = None
      /\ \A j \in 1..Len(bj.records) : Normalizes(bj.records[j]) ) =>
        IF bj.skip_first /\ Len(bj.records) = 1
        THEN pc = "failed" /\ error[1].kind = "NoJobs" /\ jobs = <<>>
        ELSE pc = "mkdir" /\ error = None /\ JobsAreFirst(Available)

\* three valid records with skipFirst gave the two jobs of records 2 and 3
C1_Witness ==
    /\ pc = "mkdir"
    /\ bj.max_jobs = None
    /\ bj.skip_first
    /\ Len(bj.records) = 3
    /\ Len(jobs) = 2
    /\ SeqOfJob(jobs[1]) # SeqOfJob(jobs[2])

\* C2: every job list returned with maxJobs = k has length min(k, available) and
\* holds the first min(k, available) available records in input order.
C2_MaxJobsCap ==
    (pc = "mkdir" /\ bj.max_jobs # None) =>
        JobsAreFirst(Min(bj.max_jobs[1], Available))

\* the selection as the claim describes it: after the skipped record, the first
\* maxJobs records of the remainder (none for maxJobs <= 0)
ClaimedSelection ==
    LET n == IF bj.max_jobs = None THEN Available
             ELSE Max(0, Min(bj.max_jobs[1], Available))
    IN  {Skipped + j : j \in 1..n}
InvalidSelected == {k \in ClaimedSelection : ~Normalizes(bj.records[k])}

\* C9: a record outside the selection is never normalized; a failing call raises the
\* error of the earliest invalid selected record (the no-jobs error when nothing is
\* selected); a returning call has one job per selected record.
C9_ValidationConfined ==
    (pc \in {"build_loop", "mkdir", "failed"}) =>
        /\ bj.normalized \subseteq ClaimedSelection
        /\ pc = "failed" =>
              IF InvalidSelected # {}
              THEN LET e == CHOOSE k \in InvalidSelected :
                                \A o \in InvalidSelected : k <= o
                   IN  error[1] = normalize_and_validate_sequence(
                                      bj.records[e].seq, bj.strict_aa20)
              ELSE error[1].kind = "NoJobs" /\ ClaimedSelection = {}
        /\ pc = "mkdir" =>
              InvalidSelected = {} /\ Len(jobs) = Cardinality(ClaimedSelection)

(***************************************************************************)
(* The names build_jobs gives: every prefix over PrefixChars of at most    *)
(* MaxPrefixLen characters and prefixes around the length limit, on        *)
(* 1..MaxRecords records of one header.                                    *)
(***************************************************************************)
MaxPrefixLen == 2

\* a space / e-acute _ -
PrefixChars == {97, 32, 47, 233, 95, 45}
Rep(c, n) == [k \in 1..n |-> c]
LongPrefixes ==
    {Rep(97, n) : n \in {DefaultMaxLen - 5, DefaultMaxLen - 4, DefaultMaxLen,
                         DefaultMaxLen + 5}}
    \cup {<<97>> \o Rep(32, DefaultMaxLen + 5) \o <<98>>}
NamePrefixes == StrsUpTo(PrefixChars, MaxPrefixLen) \cup LongPrefixes

\* ""  "T=0.1, sample=2"  "a/b c"  e-acute ;  " /"  "x.y-z, w"
NameHeaders ==
    { <<>>,
      <<84, 61, 48, 46, 49, 44, 32>> \o KeySample \o <<61, 50>>,
      <<97, 47, 98, 32, 99>>,
      <<233, 59>>,
      <<32, 47>>,
      <<120, 46, 121, 45, 122, 44, 32, 119>> }

InitName ==
    /\ pc = "build_select"
    /\ \E h \in NameHeaders, n \in 1..MaxRecords, job_prefix \in NamePrefixes,
          name_mode \in {"header", "index"} :
          bj = BuildFrame([j \in 1..n |-> [header |-> h, seq |-> <<65, 67>>]],
                          job_prefix, FALSE, None, 1, None, None, <<>>, TRUE, name_mode)
    /\ NoFiles

SpecName == InitName /\ [][NextBuild]_vars

HasNameChar(s) == \E k \in 1..Len(s) : s[k] \in SafeChars \ {95}

\* C3: every job name is non-empty, at most 120 characters long and made of
\* [A-Za-z0-9_.-] only; it is "job" when nothing of the raw name survives.
C3_JobNameInvariant ==
    \A j \in 1..Len(jobs) :
        /\ jobs[j].name # <<>>
        /\ Len(jobs[j].name) <= 120
        /\ \A k \in 1..Len(jobs[j].name) : jobs[j].name[k] \in SafeChars
        /\ (/\ bj.name_mode = "header"
            /\ ~HasNameChar(bj.job_prefix)
            /\ ~HasNameChar(bj.selected[j].header)) => jobs[j].name = JobLiteral

\* a raw name of which nothing survives (prefix " /") was named "job"
C3_Witness ==
    /\ pc = "mkdir"
    /\ bj.name_mode = "header"
    /\ jobs[1].name = JobLiteral
    /\ bj.job_prefix = <<32, 47>>

NamesDistinct == \A a, b \in 1..Len(jobs) : a # b => jobs[a].name # jobs[b].name

\* C10 as stated: in index mode the names of one job list are pairwise distinct
C10_Original == bj.name_mode = "index" => NamesDistinct

\* the sanitized name of position i before its cut to 120 characters
UncutIndexName(i) ==
    LET raw == bj.job_prefix \o <<95>> \o Format04d(i)
    IN  sanitize_job_name(raw, Len(raw))

\* C10 amended: in index mode the job at selected position i is named
\* sanitize_job_name(prefix_NNNN), and the names of one job list are pairwise distinct
\* whenever none of them had to be cut, i.e. the sanitized prefix_NNNN of every
\* position is at most 120 characters long.
C10_Amended ==
    bj.name_mode = "index" =>
        /\ \A j \in 1..Len(jobs) : jobs[j].name = PySliceTo(UncutIndexName(j), 120)
        /\ (\A j \in 1..Len(jobs) : Len(UncutIndexName(j)) <= 120) => NamesDistinct

\* two jobs named in index mode under a prefix that sanitizes to 115 characters
C10_Witness ==
    /\ pc = "mkdir"
    /\ bj.name_mode = "index"
    /\ Len(jobs) >= 2
    /\ Len(bj.job_prefix) = 115
    /\ Len(jobs[1].name) = 120
    /\ jobs[1].name # jobs[2].name

(***************************************************************************)
(* main: one run of the program.                                           *)
(***************************************************************************)
\* "true", "false"
TrueLiteral == <<116, 114, 117, 101>>
FalseLiteral == <<102, 97, 108, 115, 101>>

\* lines 194-197 with the output opened at once, as a streaming writer would
Start_OpensOutput ==
    /\ pc = "start"
    /\ IF fs.input = None
       THEN /\ error' = Some(Raise("FileNotFound", <<>>))
            /\ pc' = "failed"
       ELSE /\ error' = error
            /\ pc' = "parse_open"
    /\ fs' = [fs EXCEPT !.outDir = TRUE, !.outFile = Some(<<>>)]
    /\ UNCHANGED <<args, rd, records, bj, jobs, call, ret>>

\* lines 194-197: the input must exist
Start ==
    /\ pc = "start"
    /\ IF fs.input = None
       THEN /\ error' = Some(Raise("FileNotFound", <<>>))
            /\ pc' = "failed"
       ELSE /\ error' = error
            /\ pc' = "parse_open"
    /\ UNCHANGED <<fs, args, rd, records, bj, jobs, call, ret>>

\* lines 199-218: the prefix, the tri-state option, and the call of build_jobs
BuildCall ==
    /\ pc = "build_call"
    /\ LET job_prefix == IF args.job_prefix # None /\ args.job_prefix[1] # <<>>
                         THEN args.job_prefix[1] ELSE args.input_stem
           use_structure_template ==
               IF args.use_structure_template # None
               THEN Some(Lower(args.use_structure_template[1]) = TrueLiteral)
               ELSE None
       IN  bj' = BuildFrame(records, job_prefix, args.skip_first, args.max_jobs,
                            args.count, args.max_template_date,
                            use_structure_template, args.seed,
                            ~args.allow_nonstandard, args.name_mode)
    /\ pc' = "build_select"
    /\ UNCHANGED <<fs, args, rd, records, jobs, error, call, ret>>

\* line 220
MkDir ==
    /\ pc = "mkdir"
    /\ fs' = [fs EXCEPT !.outDir = TRUE]
    /\ pc' = "open"
    /\ UNCHANGED <<args, rd, records, bj, jobs, error, call, ret>>

\* line 221: the file is created (or truncated)
OpenOut ==
    /\ pc = "open"
    /\ fs' = [fs EXCEPT !.outFile = Some(<<>>)]
    /\ pc' = "dump"
    /\ UNCHANGED <<args, rd, records, bj, jobs, error, call, ret>>

\* line 222
Dump ==
    /\ pc = "dump"
    /\ fs' = [fs EXCEPT !.outFile = Some(jobs)]
    /\ pc' = "print"
    /\ UNCHANGED <<args, rd, records, bj, jobs, error, call, ret>>

\* line 224
PrintOk ==
    /\ pc = "print"
    /\ pc' = "done"
    /\ UNCHANGED <<fs, args, rd, records, bj, jobs, error, call, ret>>

\* the input files tried: none, and
\*   ""   ">h\nAC"   ">n\nAC\n>T=1, sample=2\nc d\n"   ">h\nAX\n>g\nAC"   ">h\n>g\nAC"
InputFiles ==
    { None,
      Some(<<>>),
      Some(<<62, 104, 10, 65, 67>>),
      Some(<<62, 110, 10, 65, 67, 10, 62, 84, 61, 49, 44, 32>> \o KeySample
           \o <<61, 50, 10, 99, 32, 100, 10>>),
      Some(<<62, 104, 10, 65, 88, 10, 62, 103, 10, 65, 67>>),
      Some(<<62, 104, 10, 62, 103, 10, 65, 67>>) }

\* the command lines tried (input_stem is inp.stem; the paths themselves play no part)
CommandLines ==
    [ input_stem : {<<105, 110>>},
      job_prefix : {None, Some(<<112>>)},
      name_mode : {"header", "index"},
      skip_first : BOOLEAN,
      max_jobs : {None, Some(1), Some(-1)},
      count : {1, 2},
      max_template_date : {None, Some(<<>>), Some(<<50, 48, 50, 48>>)},
      use_structure_template : {None, Some(TrueLiteral), Some(FalseLiteral)},
      seed : {<<>>, << <<55>> >>},
      allow_nonstandard : BOOLEAN ]

Init ==
    /\ pc = "start"
    /\ fs \in [input : InputFiles, outDir : {FALSE}, outFile : {None}]
    /\ args \in CommandLines
    /\ rd = None
    /\ records = <<>>
    /\ bj = None
    /\ jobs = <<>>
    /\ error = None
    /\ call = None
    /\ ret = None

Next ==
    \/ Start
    \/ ParseOpen
    \/ ParseLine
    \/ ParseEnd
    \/ BuildCall
    \/ BuildSelect
    \/ BuildIter
    \/ BuildEnd
    \/ MkDir
    \/ OpenOut
    \/ Dump
    \/ PrintOk

Spec == Init /\ [][Next]_vars

OutputTouched == fs.outDir \/ fs.outFile # None

\* C5: the output directory and file are touched only once the input is read to its
\* end and every selected record is normalized, named and assembled; a failed run
\* has touched neither; a written file holds one job per selected record.
C5_AllOrNothing ==
    /\ OutputTouched =>
          /\ pc \in {"open", "dump", "print", "done"}
          /\ error = None
          /\ rd.rest = <<>>
          /\ bj.i = Len(bj.selected) + 1
          /\ Len(jobs) = Len(bj.selected)
          /\ \A j \in 1..Len(jobs) : SeqOfJob(jobs[j]) = Cleaned(bj.selected[j].seq)
    /\ (pc = "failed" \/ error # None) => ~OutputTouched
    /\ (fs.outFile # None /\ fs.outFile[1] # <<>>) => fs.outFile[1] = jobs
    /\ pc = "done" => fs.outFile = Some(jobs) /\ jobs # <<>>

\* a run wrote a file of two jobs
C5_Witness ==
    /\ pc = "done"
    /\ fs.outDir
    /\ Len(fs.outFile[1]) = 2

ChainOf(job) == job.sequences[1].proteinChain

UseStructureTemplateAsClaimed(chain) ==
    /\ "useStructureTemplate" \in DOMAIN chain <=> args.use_structure_template # None
    /\ "useStructureTemplate" \in DOMAIN chain =>
          chain["useStructureTemplate"] = (args.use_structure_template[1] = TrueLiteral)
    /\ {"sequence", "count"} \subseteq DOMAIN chain
    /\ chain["count"] = args.count

\* C8 as stated: maxTemplateDate is present iff a value was supplied
C8_Original ==
    \A j \in 1..Len(jobs) :
        LET chain == ChainOf(jobs[j])
        IN  /\ "maxTemplateDate" \in DOMAIN chain <=> args.max_template_date # None
            /\ "maxTemplateDate" \in DOMAIN chain =>
                  chain["maxTemplateDate"] = args.max_template_date[1]
            /\ UseStructureTemplateAsClaimed(chain)

\* C8 amended: maxTemplateDate is present iff a non-empty value was supplied (and
\* holds it); useStructureTemplate is present iff the option was set to true or to
\* false (and holds that boolean); sequence and count are always present.
C8_Amended ==
    \A j \in 1..Len(jobs) :
        LET chain == ChainOf(jobs[j])
        IN  /\ "maxTemplateDate" \in DOMAIN chain <=>
                  (args.max_template_date # None /\ args.max_template_date[1] # <<>>)
            /\ "maxTemplateDate" \in DOMAIN chain =>
                  chain["maxTemplateDate"] = args.max_template_date[1]
            /\ UseStructureTemplateAsClaimed(chain)

\* a job built with the option set to false and a date: both keys present
C8_Witness ==
    /\ pc = "done"
    /\ args.use_structure_template = Some(FalseLiteral)
    /\ args.max_template_date = Some(<<50, 48, 50, 48>>)
    /\ DOMAIN ChainOf(jobs[1]) =
          {"sequence", "count", "maxTemplateDate", "useStructureTemplate"}
    /\ ChainOf(jobs[1])["useStructureTemplate"] = FALSE

=============================================================================
